---- MODULE Spec2Model ----
(***************************************************************************)
(* ScriptRunner (crates/forge/bin/cmd/script/runner.rs): the driver that   *)
(* deploys libraries and the script contract, optionally calls setUp(),    *)
(* runs scripted calls, and sizes the gas of calls that are committed.     *)
(*                                                                         *)
(* The execution engine (forge's Executor) is the environment: every       *)
(* engine operation answers with an outcome chosen nondeterministically    *)
(* from the shapes the runner's code distinguishes (Ok, EvmError::Execution*)
(* with a payload, any other error).  One action is one engine operation   *)
(* together with the runner code around it, and pc is the runner's         *)
(* position between two engine operations.                                 *)
(***************************************************************************)
EXTENDS Integers, Sequences, FiniteSets, TLC

\* ---------------------------------------------------------------- bounds
MaxBase == 3          \* largest baseline gas_used the engine reports
MaxLibs == 2          \* largest number of libraries handed to setup
MaxNonce == 1         \* largest sender_nonce handed to setup / initial nonce
MaxTightBase == 29    \* largest baseline gas_used of the tightness runs
WordBits == 8         \* bits of the word that stands for u64 in the overflow runs

\* ------------------------------------------------------- program constants
ACCURACY == 10

\* ------------------------------------------------------------- addresses
\* An address is a pair: a named account <<name, -1>>, or the CREATE address
\* <<deployer name, deployer nonce>>.
Addr(name) == <<name, -1>>
Create(a, n) == <<a[1], n>>
CALLER == Addr("caller")
DEFAULT_SENDER == Addr("default_sender")
OTHER_ACCOUNT == Addr("other")
ZERO == Addr("zero")
NoAddress == Addr("none")
Accounts == {DEFAULT_SENDER, CALLER, OTHER_ACCOUNT}

\* ----------------------------------------------------------- engine data
ReturnOk == {"Continue", "Stop", "Return", "SelfDestruct"}
ExitReasons == {"Return", "Revert", "OutOfGas", "OutOfFund", "InvalidFEOpcode"}

VARIABLES
  \* ScriptRunner fields and the engine it owns
  sender,            \* self.sender
  has_cheatcodes,    \* self.executor.inspector.cheatcodes.is_some()
  corrected_nonce,   \* cheatcodes.corrected_nonce
  nonce,             \* engine nonces of the named accounts
  balance,           \* engine balances set so far: set of <<address, amount>>
  storage,           \* number of executions committed to the engine's state
  gas_limit,         \* self.executor.env.tx.gas_limit
  use_zk,            \* self.executor.use_zk
  \* the invocation in progress
  pc,                \* position of the runner
  entry,             \* the entry point that was invoked
  opLog,             \* engine operations of this invocation, in order
  result,            \* what the invocation returned
  pre,               \* engine state when the invocation started
  \* locals of setup
  libraries_len, setup_flag, sender_nonce, lib_i, traces, logs, address,
  constructor_debug,
  setup_answer,      \* what the engine answered to setup(sender, address)
  deploy_answer,     \* what the engine answered to simulate's deploy
  \* locals of call and search_optimal_gas_usage
  from, commit, res, gas_used, init_gas_limit,
  highest_gas_limit, lowest_gas_limit, last_highest_gas_limit, search_exit,
  \* the engine's answer to the call being simulated, when it is deterministic
  det, okSet,
  baseline_gases     \* the gas figures the engine may report for a call

engineVars == <<sender, has_cheatcodes, corrected_nonce, nonce, balance, storage,
                gas_limit, use_zk>>
setupVars == <<libraries_len, setup_flag, sender_nonce, lib_i, traces, logs, address,
               constructor_debug>>
callVars == <<from, commit, res, gas_used, init_gas_limit>>
searchVars == <<highest_gas_limit, lowest_gas_limit, last_highest_gas_limit, search_exit>>
histVars == <<entry, setup_answer, deploy_answer, baseline_gases>>
vars == <<engineVars, pc, opLog, result, pre, setupVars, callVars,
          searchVars, det, okSet, histVars>>

\* The engine's persistent state (balances, nonces, storage).
Persistent == [nonce |-> nonce, balance |-> balance, storage |-> storage]

Snapshot == [persistent |-> Persistent, gas_limit |-> gas_limit,
             corrected_nonce |-> corrected_nonce]

\* One engine operation as the engine saw it.
LogOp(op, who, arg, out) ==
  [op |-> op, who |-> who, arg |-> arg, out |-> out, traced |-> FALSE]

\* A deployment or setup call, with whether its answer carried a trace.
Traced(o, has_traces) == [o EXCEPT !.traced = has_traces]

NextId == Len(opLog) + 1

SetBalance(bal, a, amount) == {p \in bal : p[1] # a} \cup {<<a, amount>>}

\* ------------------------------------------------------------- results
NoRaw == [exit_reason |-> "Return", reverted |-> FALSE, gas_used |-> 0,
          id |-> 0, has_traces |-> FALSE]

NoScriptResult == [returned |-> 0, success |-> FALSE, gas_used |-> 0, logs |-> <<>>,
                   traces |-> <<>>, debug |-> <<>>, labeled_addresses |-> 0,
                   transactions |-> 0, address |-> NoAddress, breakpoints |-> 0]

NoResult == [kind |-> "none", address |-> NoAddress, value |-> NoScriptResult]
ErrResult == [kind |-> "Err", address |-> NoAddress, value |-> NoScriptResult]
PanicResult == [kind |-> "Panic", address |-> NoAddress, value |-> NoScriptResult]
OkResult(a, v) == [kind |-> "Ok", address |-> a, value |-> v]

\* What the engine may answer to call_raw / call_raw_committing: every field
\* other than exit_reason, reverted and gas_used is named by the operation
\* that produced it (id), so that its origin can be told.
RawCallResults(gases) ==
  [exit_reason : ExitReasons, reverted : BOOLEAN, gas_used : gases,
   id : {NextId}, has_traces : BOOLEAN]

\* What the engine may answer to call_raw_committing.  call reads neither the
\* exit reason nor the gas of this answer, so two of each are told apart.
CommittedCallResults(gasBound) ==
  [exit_reason : {"Return", "Revert"}, reverted : BOOLEAN, gas_used : {0, gasBound},
   id : {NextId}, has_traces : BOOLEAN]

\* ScriptResult assembled by call from a RawCallResult (lines 275-295).
CallScriptResult(r, gas) ==
  [returned |-> r.id,
   success |-> ~r.reverted,
   gas_used |-> gas,
   logs |-> <<r.id>>,
   traces |-> IF r.has_traces THEN << <<"Execution", r.id>> >> ELSE <<>>,
   debug |-> <<r.id>>,
   labeled_addresses |-> r.id,
   transactions |-> r.id,
   address |-> NoAddress,
   breakpoints |-> IF has_cheatcodes THEN r.id ELSE 0]

NoSetupAnswer ==
  [out |-> "none", reverted |-> FALSE, id |-> 0, gas_used |-> 0, has_traces |-> FALSE,
   nonce_bump |-> 0, corrected |-> FALSE]

NoDeployAnswer == [out |-> "none", id |-> 0, gas_used |-> 0, has_traces |-> FALSE]

\* ---------------------------------------------------------------- Init
InitLocals ==
  /\ libraries_len = 0 /\ setup_flag = FALSE /\ sender_nonce = 0 /\ lib_i = 0
  /\ traces = <<>> /\ logs = <<>> /\ address = NoAddress /\ constructor_debug = 0
  /\ from = NoAddress /\ commit = FALSE /\ res = NoRaw /\ gas_used = 0
  /\ init_gas_limit = 0
  /\ highest_gas_limit = 0 /\ lowest_gas_limit = 0 /\ last_highest_gas_limit = 0
  /\ search_exit = "none"
  /\ entry = "none" /\ setup_answer = NoSetupAnswer /\ deploy_answer = NoDeployAnswer

\* The configured gas limit of the engine handed to ScriptRunner::new.
InitGasLimit == 2 * MaxBase

Init ==
  /\ sender \in Accounts
  /\ has_cheatcodes \in BOOLEAN
  /\ corrected_nonce \in (IF has_cheatcodes THEN BOOLEAN ELSE {FALSE})
  /\ nonce \in {f \in [Accounts -> 0..MaxNonce] : f[OTHER_ACCOUNT] = 0}
  /\ balance = {}
  /\ storage = 0
  /\ gas_limit = InitGasLimit
  /\ use_zk = FALSE
  /\ pc = "idle" /\ opLog = <<>> /\ result = NoResult
  /\ pre = Snapshot
  /\ InitLocals
  /\ det = FALSE /\ okSet = {}
  /\ baseline_gases = 0..MaxBase

\* ------------------------------------------------------------ entry points
\* An entry point of the runner is invoked on the engine as it stands.
Enter ==
  /\ pc = "idle"
  /\ UNCHANGED <<pre, okSet, baseline_gases>>

\* script asking call to commit.
ScriptCommitting == TRUE

\* line 189: the commit argument script gives call.
ScriptCommit == FALSE

\* lines 188-190, script(address, calldata): call(self.sender, address,
\* calldata, 0, false).
Script ==
  /\ Enter
  /\ entry' = "script"
  /\ from' = sender /\ commit' = ScriptCommit
  /\ opLog' = <<>>
  /\ pc' = "call"
  /\ UNCHANGED <<engineVars, result, setupVars, res, gas_used, init_gas_limit,
                 searchVars, det, setup_answer, deploy_answer>>

\* ------------------------------------------------- the engine's call_raw
Min(a, b) == IF a < b THEN a ELSE b

\* The exit reasons the engine may give a simulation run with gas limit
\* `limit`: any, or, for a deterministic engine, the one okSet fixes.
ExitChoices(limit, oks) ==
  IF det THEN {IF limit \in oks THEN "Return" ELSE "OutOfGas"} ELSE ExitReasons

\* The baseline gas of a plain transfer.
TransferGas == {21000}

\* The least sufficient gas limit of the call whose baseline is a transfer's.
TransferMinimum == {23000}

\* The least sufficient gas limits considered for a call with baseline gas b.
Thresholds(b) == IF b \in TransferGas THEN TransferMinimum ELSE b..(3 * b)

\* A deterministic engine's answers to the call, by gas limit, once the
\* baseline run (gas limit `limit`) ended with exit reason `exit` using gas b:
\* the call succeeds exactly at the limits that reach a least sufficient one,
\* m, which is not below the gas used and lies within the range the search
\* covers. okSet holds the sufficient limits of that range.
OkSets(b, limit, exit) ==
  IF det
  THEN {s \in {{l \in b..(3 * b) : l >= m} : m \in Thresholds(b)} :
          (limit \in s \/ limit > 3 * b) <=> exit = "Return"}
  ELSE {{}}

\* --------------------------------------------- search_optimal_gas_usage
\* lines 325-327: the exit reasons that count as "not enough gas".
IsFailure(exit) == exit \in {"Revert", "OutOfGas", "OutOfFund"}

\* A search whose range ends at thirty times the baseline.
InitialHighestWide(gas) == gas * 30

\* line 317
InitialHighest(gas) == gas * 3

\* A search that runs whatever the baseline's exit reason.
SearchRunsAlways(exit) == TRUE

\* line 313: matches!(res.exit_reason, return_ok!()).
SearchRuns(exit) == exit \in ReturnOk

\* A search whose range starts at zero.
LowestFromZero(gas) == 0

\* line 318
InitialLowest(gas) == gas

\* A search that steps up from the lower bound instead of halving the range.
StepGasLimit(high, low) == low + 1

\* line 321
MidGasLimit(high, low) == (high + low) \div 2

\* A convergence test that accepts bounds within a fifth of each other.
ConvergedWithinFifth(last, high) == ((last - high) * 5) \div last < 1

\* lines 335-337
Converged(last, high) == ((last - high) * ACCURACY) \div last < 1

\* The search returning without the reset of line 348.
KeepGasLimit(init, current) == current

\* line 348: the gas limit the search leaves behind when it returns a value.
ResetGasLimit(init, current) == init

\* ------------------------------------------------------------------ call
\* line 262: the baseline, non-committing simulation; lines 275-295 when
\* commit is false.
CallBaseline ==
  /\ pc = "call"
  /\ \/ /\ opLog' = Append(opLog, LogOp("call_raw", from, gas_limit, "Fatal"))
        /\ result' = ErrResult
        /\ pc' = "done"
        /\ UNCHANGED <<res, gas_used, okSet>>
     \/ \E r \in RawCallResults({g \in baseline_gases : g <= gas_limit}) :
          /\ det => r.exit_reason \in {"Return", "OutOfGas"}
          /\ okSet' \in OkSets(r.gas_used, gas_limit, r.exit_reason)
          /\ opLog' = Append(opLog, LogOp("call_raw", from, gas_limit, "Ok"))
          /\ res' = r
          /\ gas_used' = r.gas_used
          /\ IF commit
             THEN pc' = "search" /\ result' = result
             ELSE pc' = "done" /\ result' = OkResult(NoAddress, CallScriptResult(r, r.gas_used))
  /\ UNCHANGED <<histVars, engineVars, pre, setupVars, from, commit,
                 init_gas_limit, searchVars, det>>

\* lines 312-319: entry of search_optimal_gas_usage.
SearchBegin ==
  /\ pc = "search"
  /\ IF SearchRuns(res.exit_reason)
     THEN /\ init_gas_limit' = gas_limit
          /\ highest_gas_limit' = InitialHighest(gas_used)
          /\ lowest_gas_limit' = InitialLowest(gas_used)
          /\ last_highest_gas_limit' = InitialHighest(gas_used)
          /\ search_exit' = "none"
          /\ pc' = "search_loop"
     ELSE /\ search_exit' = "skipped"
          /\ pc' = "commit"
          /\ UNCHANGED <<init_gas_limit, highest_gas_limit, lowest_gas_limit,
                         last_highest_gas_limit>>
  /\ UNCHANGED <<histVars, engineVars, opLog, result, pre, setupVars, from,
                 commit, res, gas_used, det, okSet>>

\* lines 320-346: one iteration of the loop.
SearchIterate ==
  /\ pc = "search_loop"
  /\ highest_gas_limit - lowest_gas_limit > 1
  /\ LET mid == MidGasLimit(highest_gas_limit, lowest_gas_limit) IN
     /\ gas_limit' = mid
     /\ \/ /\ opLog' = Append(opLog, LogOp("call_raw", from, mid, "Fatal"))
           /\ result' = ErrResult
           /\ pc' = "done"
           /\ UNCHANGED <<gas_used, searchVars>>
        \/ \E exit \in ExitChoices(mid, okSet) :
             /\ opLog' = Append(opLog, LogOp("call_raw", from, mid, "Ok"))
             /\ result' = result
             /\ IF IsFailure(exit)
                THEN /\ lowest_gas_limit' = mid
                     /\ pc' = "search_loop"
                     /\ UNCHANGED <<gas_used, highest_gas_limit,
                                    last_highest_gas_limit, search_exit>>
                ELSE /\ highest_gas_limit' = mid
                     /\ lowest_gas_limit' = lowest_gas_limit
                     /\ IF Converged(last_highest_gas_limit, mid)
                        THEN /\ gas_used' = mid
                             /\ search_exit' = "converged"
                             /\ pc' = "search_end"
                             /\ UNCHANGED last_highest_gas_limit
                        ELSE /\ last_highest_gas_limit' = mid
                             /\ pc' = "search_loop"
                             /\ UNCHANGED <<gas_used, search_exit>>
  /\ UNCHANGED <<histVars, sender, has_cheatcodes, corrected_nonce, nonce, balance, storage,
                 use_zk, pre, setupVars, from, commit, res,
                 init_gas_limit, det, okSet>>

\* lines 347-350: after the loop, by break or by its condition.
SearchEnd ==
  /\ \/ pc = "search_end"
     \/ pc = "search_loop" /\ ~(highest_gas_limit - lowest_gas_limit > 1)
  /\ gas_limit' = ResetGasLimit(init_gas_limit, gas_limit)
  /\ search_exit' = IF pc = "search_end" THEN search_exit ELSE "exhausted"
  /\ pc' = "commit"
  /\ UNCHANGED <<histVars, sender, has_cheatcodes, corrected_nonce, nonce, balance, storage,
                 use_zk, opLog, result, pre, setupVars, from, commit,
                 res, gas_used, init_gas_limit, highest_gas_limit, lowest_gas_limit,
                 last_highest_gas_limit, det, okSet>>

\* call keeping the baseline's result after the committing execution.
KeepBaselineResult(baseline, committed) == baseline

\* line 272: res = self.executor.call_raw_committing(..).
ReplayResult(baseline, committed) == committed

\* lines 272-295: the committing execution and the result of call.
CallCommit ==
  /\ pc = "commit"
  /\ \/ /\ opLog' = Append(opLog, LogOp("call_raw_committing", from, gas_limit, "Fatal"))
        /\ result' = ErrResult
        /\ UNCHANGED <<res, storage>>
     \/ \E r \in CommittedCallResults(Min(MaxBase, gas_limit)) :
          /\ opLog' = Append(opLog, LogOp("call_raw_committing", from, gas_limit, "Ok"))
          /\ res' = ReplayResult(res, r)
          /\ storage' = storage + 1
          /\ result' = OkResult(NoAddress, CallScriptResult(res', gas_used))
  /\ pc' = "done"
  /\ UNCHANGED <<histVars, sender, has_cheatcodes, corrected_nonce, nonce, balance, gas_limit,
                 use_zk, pre, setupVars, from, commit, gas_used,
                 init_gas_limit, searchVars, det, okSet>>

\* ------------------------------------------------------------- simulate
\* lines 201-207: simulate with `to` present.
SimulateCall ==
  /\ Enter
  /\ \E f \in {sender, OTHER_ACCOUNT}, zk \in BOOLEAN :
       /\ from' = f
       /\ use_zk' = zk
       /\ opLog' = IF zk THEN <<LogOp("setup_zk_tx", f, 0, "Ok")>> ELSE <<>>
  /\ entry' = "simulate_call"
  /\ commit' = TRUE
  /\ pc' = "call"
  /\ UNCHANGED <<sender, has_cheatcodes, corrected_nonce, nonce, balance, storage,
                 gas_limit, result, setupVars, res, gas_used, init_gas_limit,
                 searchVars, det, setup_answer, deploy_answer>>

\* The address the engine gives a contract deployed by `f` (CREATE: the
\* deployer and its nonce when the deployment starts).
DeployedAddress(f) == Create(f, nonce[f])

\* What the engine may answer to deploy: a DeployResult, or the payload of an
\* EvmError::Execution, or another error.
DeployAnswers(id) ==
  [out : {"Ok", "Execution"}, id : {id}, gas_used : {0, MaxBase},
   has_traces : BOOLEAN]
    \cup [out : {"Fatal"}, id : {id}, gas_used : {0}, has_traces : {FALSE}]

\* simulate without the zero sentinel of line 222.
SimulateDeployedNoSentinel(f, d) == DeployedAddress(f)

\* lines 215-225: what simulate keeps of the answer of deploy.
SimulateDeployed(f, d) ==
  IF d.out = "Ok" THEN DeployedAddress(f) ELSE ZERO

\* lines 227-242
CreateScriptResult(a, d) ==
  [returned |-> 0,
   success |-> a # ZERO,
   gas_used |-> d.gas_used,
   logs |-> <<d.id>>,
   traces |-> IF d.has_traces THEN << <<"Execution", d.id>> >> ELSE <<>>,
   debug |-> <<d.id>>,
   labeled_addresses |-> 0,
   transactions |-> 0,
   address |-> a,
   breakpoints |-> 0]

\* lines 201-204, 208-242: simulate with `to` absent, a contract creation.
SimulateCreate ==
  /\ Enter
  /\ \E f \in {sender, OTHER_ACCOUNT}, zk \in BOOLEAN, has_calldata \in BOOLEAN :
       LET zkOps == IF zk THEN <<LogOp("setup_zk_tx", f, 0, "Ok")>> ELSE <<>> IN
       /\ from' = f
       /\ use_zk' = zk
       /\ IF ~has_calldata
          THEN \* calldata.expect("No data for create transaction")
               /\ opLog' = zkOps
               /\ result' = PanicResult
               /\ UNCHANGED <<nonce, storage, deploy_answer>>
          ELSE \E d \in DeployAnswers(Len(zkOps) + 1) :
               /\ opLog' = Append(zkOps, Traced(LogOp("deploy", f, nonce[f], d.out),
                                                d.has_traces))
               /\ deploy_answer' = d
               /\ IF d.out = "Ok"
                  THEN /\ nonce' = [nonce EXCEPT ![f] = @ + 1]
                       /\ storage' = storage + 1
                  ELSE UNCHANGED <<nonce, storage>>
               /\ result' = IF d.out = "Fatal"
                            THEN ErrResult
                            ELSE OkResult(NoAddress,
                                          CreateScriptResult(SimulateDeployed(f, d), d))
  /\ entry' = "simulate_create"
  /\ pc' = "done"
  /\ UNCHANGED <<sender, has_cheatcodes, corrected_nonce, balance, gas_limit,
                 setupVars, commit, res, gas_used, init_gas_limit, searchVars,
                 det, setup_answer>>

\* ---------------------------------------------------------------- setup
\* The effect on the engine's persistent state of an operation that succeeds.
ApplyOp(e, o) ==
  CASE o.op = "set_balance_max" -> [e EXCEPT !.balance = SetBalance(@, o.who, "MAX")]
    [] o.op = "set_balance_initial" ->
         [e EXCEPT !.balance = SetBalance(@, o.who, "initial_balance")]
    [] o.op = "set_nonce" -> [e EXCEPT !.nonce[o.who] = o.arg]
    [] o.op = "deploy_create2_deployer" -> [e EXCEPT !.storage = @ + 1]
    [] OTHER -> e

RECURSIVE ApplyOps(_, _, _)
ApplyOps(e, ops, k) == IF k = 0 THEN e ELSE ApplyOp(ApplyOps(e, ops, k - 1), ops[k])

\* The log of `ops` when the first k succeed and the next one, if any, fails:
\* each is followed by `?`, so nothing after the failing one is performed.
LogOps(ops, k) ==
  [i \in 1..Min(k + 1, Len(ops)) |-> IF i <= k THEN ops[i] ELSE [ops[i] EXCEPT !.out = "Fatal"]]

\* lines 45-59: the operations setup starts with.
ProvisionOps(sn, is_broadcast, need_create2_deployer) ==
  (IF ~is_broadcast /\ sender = DEFAULT_SENDER
   THEN <<LogOp("set_balance_max", sender, 0, "Ok")>> ELSE <<>>)
  \o (IF ~is_broadcast /\ need_create2_deployer
      THEN <<LogOp("deploy_create2_deployer", ZERO, 0, "Ok")>> ELSE <<>>)
  \o <<LogOp("set_nonce", sender, sn, "Ok"), LogOp("set_balance_max", CALLER, 0, "Ok")>>

\* setup, lines 34-59.
SetupProvision ==
  /\ Enter
  /\ entry' = "setup"
  /\ \E n \in 0..MaxLibs, st \in BOOLEAN, sn \in 0..MaxNonce,
        is_broadcast \in BOOLEAN, need_create2_deployer \in BOOLEAN :
       LET ops == ProvisionOps(sn, is_broadcast, need_create2_deployer) IN
       \E k \in 0..Len(ops) :
         LET e == ApplyOps(Persistent, ops, k) IN
         /\ nonce' = e.nonce /\ balance' = e.balance /\ storage' = e.storage
         /\ opLog' = LogOps(ops, k)
         /\ IF k = Len(ops)
            THEN /\ libraries_len' = n /\ setup_flag' = st /\ sender_nonce' = sn
                 /\ pc' = "setup_libs"
                 /\ result' = result
            ELSE /\ result' = ErrResult
                 /\ pc' = "done"
                 /\ UNCHANGED <<libraries_len, setup_flag, sender_nonce>>
  /\ UNCHANGED <<sender, has_cheatcodes, corrected_nonce, gas_limit, use_zk,
                 lib_i, traces, logs, address, constructor_debug, callVars,
                 searchVars, det, setup_answer, deploy_answer>>

\* Library traces collected in front of the earlier ones.
LibraryTracesReversed(tr, has_traces, id) ==
  IF has_traces THEN << <<"Deployment", id>> >> \o tr ELSE tr

\* lines 62-73: filter_map keeps the trace of a library deployment that has
\* one, map tags it Deployment, collect keeps the order of the libraries.
LibraryTraces(tr, has_traces, id) ==
  IF has_traces THEN Append(tr, <<"Deployment", id>>) ELSE tr

\* lines 62-73: one library, deployed from the sender; any error panics.
SetupDeployLibrary ==
  /\ pc = "setup_libs"
  /\ lib_i < libraries_len
  /\ \/ \E has_traces \in BOOLEAN :
          /\ opLog' = Append(opLog, Traced(LogOp("deploy", sender, nonce[sender], "Ok"),
                                           has_traces))
          /\ nonce' = [nonce EXCEPT ![sender] = @ + 1]
          /\ storage' = storage + 1
          /\ traces' = LibraryTraces(traces, has_traces, NextId)
          /\ lib_i' = lib_i + 1
          /\ pc' = "setup_libs"
          /\ result' = result
     \/ \E out \in {"Execution", "Fatal"} :
          /\ opLog' = Append(opLog, LogOp("deploy", sender, nonce[sender], out))
          /\ result' = PanicResult
          /\ pc' = "done"
          /\ UNCHANGED <<nonce, storage, traces, lib_i>>
  /\ UNCHANGED <<histVars, sender, has_cheatcodes, corrected_nonce, balance, gas_limit, use_zk,
                 pre, libraries_len, setup_flag, sender_nonce, logs, address,
                 constructor_debug, callVars, searchVars, det, okSet>>

\* lines 152-166: the ScriptResult of setup.
SetupScriptResult(success, gas, labels, txs, lg, tr, dbg) ==
  [returned |-> 0,
   success |-> success,
   gas_used |-> gas,
   logs |-> lg,
   traces |-> tr,
   debug |-> dbg,
   labeled_addresses |-> labels,
   transactions |-> txs,
   address |-> NoAddress,
   breakpoints |-> 0]

\* The library deployments made from the CALLER account (those of a sender
\* that is CALLER).
LibrariesByCaller == IF sender = CALLER THEN lib_i ELSE 0

\* CALLER's nonce read before the libraries are deployed.
PrefundNonceBeforeLibraries(by_caller) == nonce[CALLER] - by_caller

\* line 75: self.executor.get_nonce(CALLER), read after the library
\* deployments of lines 62-73.
PrefundNonce(by_caller) == nonce[CALLER]

\* setup going on after a structured failure of the main deployment.
MainDeployFailsFatally(out) == out = "Fatal"

\* lines 88-91: every error of the main deployment is mapped and returned.
MainDeployFails(out) == out # "Ok"

\* lines 75-98: the address is pre-funded, the contract deployed from CALLER,
\* and, when setUp() is not asked for, the result returned.
SetupDeployMain ==
  /\ pc = "setup_libs"
  /\ lib_i = libraries_len
  /\ LET funded == Create(CALLER, PrefundNonce(LibrariesByCaller))
         ops == <<LogOp("get_nonce", CALLER, PrefundNonce(LibrariesByCaller), "Ok"),
                  LogOp("set_balance_initial", funded, 0, "Ok")>>
     IN
     \E k \in 0..Len(ops) :
       LET e == ApplyOps(Persistent, ops, k)
           log == opLog \o LogOps(ops, k)
       IN
       IF k < Len(ops)
       THEN /\ opLog' = log
            /\ balance' = e.balance
            /\ result' = ErrResult
            /\ pc' = "done"
            /\ UNCHANGED <<nonce, storage, traces, logs, address, constructor_debug>>
       ELSE \E d \in DeployAnswers(Len(log) + 1) :
            LET dlog == Append(log, Traced(LogOp("deploy", CALLER, nonce[CALLER], d.out),
                                           d.has_traces)) IN
            /\ balance' = e.balance
            /\ IF MainDeployFails(d.out)
               THEN \* map_err: "Failed to deploy script"
                    /\ d.gas_used = 0 /\ ~d.has_traces
                    /\ opLog' = dlog
                    /\ result' = ErrResult
                    /\ pc' = "done"
                    /\ UNCHANGED <<nonce, storage, traces, logs, address,
                                   constructor_debug>>
               ELSE /\ d.gas_used = 0
                    /\ nonce' = [nonce EXCEPT ![CALLER] = @ + 1]
                    /\ storage' = storage + 1
                    /\ address' = DeployedAddress(CALLER)
                    /\ logs' = <<d.id>>
                    /\ constructor_debug' = d.id
                    /\ traces' = IF d.has_traces
                                 THEN Append(traces, <<"Deployment", d.id>>)
                                 ELSE traces
                    /\ IF ~setup_flag
                       THEN /\ opLog' = Append(dlog, LogOp("set_test_contract",
                                                DeployedAddress(CALLER), 0, "Ok"))
                            /\ result' = OkResult(address',
                                 SetupScriptResult(TRUE, 0, 0, 0, logs', traces', <<d.id>>))
                            /\ pc' = "done"
                       ELSE /\ opLog' = dlog
                            /\ result' = result
                            /\ pc' = "setup_call"
  /\ UNCHANGED <<histVars, sender, has_cheatcodes, corrected_nonce, gas_limit, use_zk, pre,
                 libraries_len, setup_flag, sender_nonce, lib_i, callVars,
                 searchVars, det, okSet>>

\* What the engine may answer to setup(sender, address): a CallResult (Ok) or
\* the ExecutionErr of an EvmError::Execution, both with the fields the runner
\* reads; and what running setUp() did to the sender's nonce and to the
\* cheatcodes' corrected_nonce flag.
SetupAnswers(id) ==
  [out : {"Ok", "Execution"}, reverted : BOOLEAN, id : {id}, gas_used : {MaxBase},
   has_traces : BOOLEAN, nonce_bump : {0, 1},
   corrected : IF has_cheatcodes THEN {corrected_nonce, TRUE} ELSE {FALSE}]
    \cup [out : {"Fatal"}, reverted : {FALSE}, id : {id}, gas_used : {0},
          has_traces : {FALSE}, nonce_bump : {0}, corrected : {corrected_nonce}]

\* setup normalizing every answer of setup(..), the unrecoverable ones too.
SetupCallAbsorbs(out) == FALSE

\* lines 101, 124, 148: the answers of setup(..) that make setup return Err.
SetupCallPropagates(out) == out = "Fatal"

\* The trace of the setup call put in front of the deployments'.
SetupTracesFirst(tr, has_traces, id) ==
  IF has_traces THEN << <<"Setup", id>> >> \o tr ELSE tr

\* lines 111, 135: traces.extend(setup_traces.map(|t| (TraceKind::Setup, t))).
SetupTraces(tr, has_traces, id) ==
  IF has_traces THEN Append(tr, <<"Setup", id>>) ELSE tr

\* lines 117, 141
SetupSuccess(reverted) == ~reverted

\* A correction that adds the libraries to the sender's current nonce.
CumulativeNonce(sender_initial_nonce, len) == nonce[sender] + len

\* line 180: the nonce maybe_correct_nonce gives the sender.
CorrectedNonce(sender_initial_nonce, len) == sender_initial_nonce + len

\* line 178: whether maybe_correct_nonce sets the sender's nonce.
NeedsCorrection(cheatcodes, corrected) == cheatcodes /\ ~corrected

\* maybe_correct_nonce without the reset of line 182.
FlagKept(cheatcodes, corrected) == corrected

\* line 182: the flag maybe_correct_nonce leaves behind.
FlagAfterCorrection(cheatcodes, corrected) == IF cheatcodes THEN FALSE ELSE corrected

\* lines 100-166: the setUp() call, maybe_correct_nonce and the result.
SetupCall ==
  /\ pc = "setup_call"
  /\ \E c \in SetupAnswers(NextId) :
          LET called == Append(opLog, Traced(LogOp("setup", sender, 0, c.out),
                                             c.has_traces))
              nonce1 == [nonce EXCEPT ![sender] = @ + c.nonce_bump]
              target == CorrectedNonce(sender_nonce, libraries_len)
          IN
          /\ setup_answer' = c
          /\ storage' = IF c.out = "Fatal" THEN storage ELSE storage + 1
          /\ IF SetupCallPropagates(c.out)
             THEN /\ opLog' = called
                  /\ result' = ErrResult
                  /\ nonce' = nonce1
                  /\ corrected_nonce' = c.corrected
                  /\ UNCHANGED <<traces, logs>>
             ELSE /\ traces' = SetupTraces(traces, c.has_traces, c.id)
                  /\ logs' = Append(logs, c.id)
                  /\ IF NeedsCorrection(has_cheatcodes, c.corrected)
                     THEN \/ /\ opLog' = Append(called,
                                           LogOp("set_nonce", sender, target, "Ok"))
                             /\ nonce' = [nonce1 EXCEPT ![sender] = target]
                             /\ corrected_nonce' =
                                  FlagAfterCorrection(has_cheatcodes, c.corrected)
                             /\ result' = OkResult(address,
                                  SetupScriptResult(SetupSuccess(c.reverted), c.gas_used,
                                     c.id, c.id, logs', traces',
                                     <<constructor_debug, c.id>>))
                          \/ /\ opLog' = Append(called,
                                           LogOp("set_nonce", sender, target, "Fatal"))
                             /\ nonce' = nonce1
                             /\ corrected_nonce' = c.corrected
                             /\ result' = ErrResult
                     ELSE /\ opLog' = called
                          /\ nonce' = nonce1
                          /\ corrected_nonce' =
                               FlagAfterCorrection(has_cheatcodes, c.corrected)
                          /\ result' = OkResult(address,
                               SetupScriptResult(SetupSuccess(c.reverted), c.gas_used,
                                  c.id, c.id, logs', traces',
                                  <<constructor_debug, c.id>>))
  /\ pc' = "done"
  /\ UNCHANGED <<sender, has_cheatcodes, balance, gas_limit, use_zk, pre,
                 libraries_len, setup_flag, sender_nonce, lib_i, address,
                 constructor_debug, callVars, searchVars, det, okSet,
                 entry, deploy_answer, baseline_gases>>

Next ==
  \/ SetupProvision
  \/ SetupDeployLibrary
  \/ SetupDeployMain
  \/ SetupCall
  \/ Script
  \/ SimulateCall
  \/ SimulateCreate
  \/ CallBaseline
  \/ SearchBegin
  \/ SearchIterate
  \/ SearchEnd
  \/ CallCommit

Spec == Init /\ [][Next]_vars

\* ------------------------------------------------- the call path alone
\* script and simulate-with-`to` on one engine: the actions of call and of
\* search_optimal_gas_usage.
NextCall ==
  \/ Script
  \/ SimulateCall
  \/ CallBaseline
  \/ SearchBegin
  \/ SearchIterate
  \/ SearchEnd
  \/ CallCommit

FreshEngine ==
  /\ sender = DEFAULT_SENDER
  /\ has_cheatcodes = FALSE
  /\ corrected_nonce = FALSE
  /\ nonce = [a \in Accounts |-> 0]
  /\ balance = {}
  /\ storage = 0
  /\ use_zk = FALSE
  /\ pc = "idle" /\ opLog = <<>> /\ result = NoResult
  /\ InitLocals

\* The engine is deterministic: the outcome of the simulated call depends on
\* the gas limit alone (okSet, fixed when the baseline is run). A call that
\* ran uses gas, so the baseline figures start at 1.
InitDet ==
  /\ FreshEngine
  /\ gas_limit = InitGasLimit
  /\ det = TRUE /\ okSet = {}
  /\ baseline_gases = 1..MaxBase
  /\ pre = Snapshot

SpecDet == InitDet /\ [][NextCall]_vars

\* Every sequence of outcomes of the re-simulations, for small baselines and
\* for a transfer's.
InitSearch ==
  /\ FreshEngine
  /\ gas_limit = 30000000
  /\ det = FALSE /\ okSet = {}
  /\ baseline_gases = (0..MaxBase) \cup TransferGas
  /\ pre = Snapshot

SpecSearch == InitSearch /\ [][NextCall]_vars

\* A deterministic engine with baselines up to MaxTightBase and a transfer's,
\* under the gas limit of InitSearch.
InitTight ==
  /\ FreshEngine
  /\ gas_limit = 30000000
  /\ det = TRUE /\ okSet = {}
  /\ baseline_gases = (1..MaxTightBase) \cup TransferGas
  /\ pre = Snapshot

SpecTight == InitTight /\ [][NextCall]_vars

\* The largest value of the unsigned word of WordBits bits (u64::MAX for 64).
MaxWord == 2 ^ WordBits - 1

\* The gas figures are words: every sequence of outcomes of the
\* re-simulations, for every baseline b with ACCURACY * b within the word.
InitWord ==
  /\ FreshEngine
  /\ gas_limit = MaxWord
  /\ det = FALSE /\ okSet = {}
  /\ baseline_gases = {b \in 0..MaxWord : ACCURACY * b <= MaxWord}
  /\ pre = Snapshot

SpecWord == InitWord /\ [][NextCall]_vars

\* =================================================================== claims
Last == opLog[Len(opLog)]

\* The re-simulations of the search: the call_raw operations after the baseline.
Resims ==
  LET n == Cardinality({i \in 1..Len(opLog) : opLog[i].op = "call_raw"})
  IN IF n = 0 THEN 0 ELSE n - 1

RECURSIVE CeilLog2(_)
CeilLog2(n) == IF n <= 1 THEN 0 ELSE 1 + CeilLog2((n + 1) \div 2)

SearchReturned == pc = "commit" /\ search_exit \in {"converged", "exhausted"}

\* C1: with a deterministic engine (the outcome depends on the gas limit
\* alone) and a successful baseline, re-simulating the call with the gas limit
\* set to the returned estimate succeeds.
C1_EstimateSucceeds == (det /\ SearchReturned) => gas_used \in okSet

\* C2: when the search runs, the value it returns is the upper bound
\* highest_gas_limit at the moment the loop exits, by convergence as well as by
\* highest - lowest <= 1.
C2_ReturnsHigh == SearchReturned => gas_used = highest_gas_limit

\* C3: after a call with commit = true that returns a ScriptResult, the
\* engine's gas limit equals its value before the call.
C3_GasLimitRestored ==
  (entry = "simulate_call" /\ pc = "done" /\ result.kind = "Ok")
    => gas_limit = pre.gas_limit

C3_Witness ==
  /\ entry = "simulate_call" /\ pc = "done" /\ result.kind = "Ok"
  /\ search_exit = "exhausted"
  /\ \E i \in 1..Len(opLog) : opLog[i].op = "call_raw" /\ opLog[i].arg # pre.gas_limit

\* C4: when a re-simulation of the search returns an engine error and the
\* call aborts with it, the engine's gas limit still equals its value before
\* the search.
C4_RestoredOnError ==
  (entry = "simulate_call" /\ pc = "done" /\ result.kind = "Err")
    => gas_limit = pre.gas_limit

\* C5: script (commit = false) gives the engine exactly one non-committing
\* simulation and nothing else; the engine's persistent state and gas limit
\* are those before the call, and the gas_used returned is the baseline's.
C5_ScriptDoesNotMutate ==
  entry = "script" =>
    /\ Persistent = pre.persistent
    /\ gas_limit = pre.gas_limit
    /\ Len(opLog) <= 1
    /\ pc = "done" =>
         /\ Len(opLog) = 1 /\ opLog[1].op = "call_raw"
         /\ result.kind = "Ok" =>
              /\ res.id = 1
              /\ result.value.gas_used = res.gas_used

C5_Witness ==
  /\ entry = "script" /\ pc = "done" /\ result.kind = "Ok"
  /\ result.value.gas_used > 0

\* C6: the search performs at most ceil(log2(2 * b)) re-simulations for a
\* baseline gas b >= 1 (at most 16 for b = 21000) and none for b = 0, whatever
\* the re-simulations answer: the re-simulations made plus ceil(log2) of the
\* range that is left never exceed that bound.
C6_SearchTerminates ==
  (\/ pc \in {"search_loop", "search_end", "commit"}
   \/ pc = "done" /\ result.kind = "Err" /\ Last.op = "call_raw")
    => LET b == res.gas_used
           left == IF pc = "search_loop"
                   THEN CeilLog2(highest_gas_limit - lowest_gas_limit) ELSE 0
       IN /\ Resims + left <= (IF b = 0 THEN 0 ELSE CeilLog2(2 * b))
          /\ b \in TransferGas => Resims <= 16

C6_Witness ==
  /\ pc = "commit" /\ search_exit = "exhausted"
  /\ res.gas_used \in TransferGas
  /\ Resims = 16

\* C7: when the setUp() call ends as an EvmError::Execution, whatever its
\* payload, the ScriptResult setup returns has success = false.
C7_ExecutionFailureFails ==
  (entry = "setup" /\ pc = "done" /\ setup_answer.out = "Execution"
     /\ result.kind = "Ok")
    => ~result.value.success

\* A deploy of the log that is one of setup's library deployments (the main
\* deployment follows the pre-funding of its address).
IsLibraryDeploy(i) ==
  /\ entry = "setup" /\ opLog[i].op = "deploy"
  /\ i > 1 /\ opLog[i - 1].op # "set_balance_initial"

\* C8: an engine operation that reports a fatal error is the last engine
\* operation of the invocation, and the invocation returns an error, not a
\* ScriptResult (a library deployment panics instead).
C8_FatalPropagates ==
  \A i \in 1..Len(opLog) :
    opLog[i].out = "Fatal" =>
      /\ i = Len(opLog)
      /\ pc = "done"
      /\ result.kind = (IF IsLibraryDeploy(i) THEN "Panic" ELSE "Err")

C8_Witness ==
  /\ pc = "done" /\ opLog # <<>>
  /\ Last.op = "setup" /\ Last.out = "Fatal"
  /\ result.kind = "Err"

\* C9: simulate with `to` absent: a structured failure of the deployment gives
\* a ScriptResult with success = false, the zero address, and the failure's
\* gas_used, logs and trace (tagged Execution); a successful deployment gives
\* success = (address # zero) and the deployed address; any other error
\* propagates.
C9_SimulateCreate ==
  (entry = "simulate_create" /\ deploy_answer.out # "none") =>
    LET d == deploy_answer
        v == result.value
    IN CASE d.out = "Execution" ->
              /\ result.kind = "Ok"
              /\ ~v.success
              /\ v.address = ZERO
              /\ v.gas_used = d.gas_used
              /\ v.logs = <<d.id>>
              /\ v.traces = IF d.has_traces THEN << <<"Execution", d.id>> >> ELSE <<>>
         [] d.out = "Ok" ->
              /\ result.kind = "Ok"
              /\ v.success = (v.address # ZERO)
              /\ v.address = Create(from, pre.persistent.nonce[from])
         [] OTHER -> result.kind = "Err"

C9_Witness ==
  /\ entry = "simulate_create" /\ pc = "done"
  /\ deploy_answer.out = "Execution" /\ deploy_answer.has_traces
  /\ deploy_answer.gas_used > 0
  /\ result.kind = "Ok"

\* C10: after setup(.., setup = true, sender_nonce = n, ..) returns a result
\* with the cheatcodes present and corrected_nonce unset at the end of the
\* setUp() call, the sender's nonce is n + len(libraries), whatever it was
\* before the invocation and whatever the setUp() call did to it.
C10_NonceNotCumulative ==
  (/\ entry = "setup" /\ pc = "done" /\ result.kind = "Ok" /\ setup_flag
   /\ has_cheatcodes
   /\ setup_answer.out \in {"Ok", "Execution"} /\ ~setup_answer.corrected)
    => nonce[sender] = sender_nonce + libraries_len

C10_Witness ==
  /\ entry = "setup" /\ pc = "done" /\ result.kind = "Ok" /\ setup_flag
  /\ has_cheatcodes
  /\ setup_answer.out \in {"Ok", "Execution"} /\ ~setup_answer.corrected
  /\ libraries_len >= 1
  /\ pre.persistent.nonce[sender] # sender_nonce
  /\ setup_answer.nonce_bump = 1

\* The deploy operations of the log, in the order the engine saw them.
DeploySeq ==
  SelectSeq([i \in 1..Len(opLog) |-> i], LAMBDA i : opLog[i].op = "deploy")

SetupReturned == entry = "setup" /\ pc = "done" /\ result.kind = "Ok"

\* C11: setup with setup = false and n libraries returns success = true,
\* gas_used = 0, no transactions, empty returned data, address unset and the
\* main contract's deployed address as first element; the engine's setup entry
\* point is not invoked; and when every deployment recorded a trace, the traces
\* are n + 1 Deployment entries: the libraries in input order, then the main
\* contract.
C11_NoSetupResult ==
  (SetupReturned /\ ~setup_flag) =>
    LET d == DeploySeq
        v == result.value
    IN /\ Len(d) = libraries_len + 1
       /\ \A k \in 1..libraries_len : opLog[d[k]].who = sender
       /\ opLog[d[Len(d)]].who = CALLER
       /\ \A i \in 1..Len(opLog) : opLog[i].op # "setup"
       /\ v.success /\ v.gas_used = 0 /\ v.transactions = 0 /\ v.returned = 0
       /\ v.address = NoAddress
       /\ result.address = Create(CALLER, opLog[d[Len(d)]].arg)
       /\ (\A k \in 1..Len(d) : opLog[d[k]].traced)
            => v.traces = [k \in 1..Len(d) |-> <<"Deployment", d[k]>>]

C11_Witness ==
  /\ SetupReturned /\ ~setup_flag
  /\ libraries_len = 2
  /\ Len(result.value.traces) = 3
  /\ \A k \in 1..Len(DeploySeq) : opLog[DeploySeq[k]].traced

\* The positions of the traces of a result that carry the tag `kind`.
TraceIdx(kind) ==
  {k \in 1..Len(result.value.traces) : result.value.traces[k][1] = kind}

SetupReverted == SetupReturned /\ setup_flag /\ setup_answer.reverted

\* The id of the main deployment: the last deploy of the log.
MainDeployId == DeploySeq[Len(DeploySeq)]

\* C12 as stated: when the setup call reverts (clean result or structured
\* failure with reverted = true) the result has success = false, exactly one
\* Setup-tagged trace, placed after every Deployment-tagged one, and its logs
\* are the constructor's followed by the setup call's.
C12_SetupRevert ==
  SetupReverted =>
    /\ ~result.value.success
    /\ Cardinality(TraceIdx("Setup")) = 1
    /\ \A k \in TraceIdx("Setup"), j \in TraceIdx("Deployment") : j < k
    /\ result.value.logs = <<MainDeployId, setup_answer.id>>

\* C12, amended: as above, with one Setup-tagged trace when the setup call
\* recorded a trace and none when it did not; every trace entry is the trace
\* of one engine operation, tagged by the stage of that operation.
C12_SetupRevertTraced ==
  SetupReverted =>
    LET tr == result.value.traces IN
    /\ ~result.value.success
    /\ Cardinality(TraceIdx("Setup")) = (IF setup_answer.has_traces THEN 1 ELSE 0)
    /\ \A k \in TraceIdx("Setup") : tr[k][2] = setup_answer.id
    /\ \A k \in TraceIdx("Setup"), j \in TraceIdx("Deployment") : j < k
    /\ \A k \in 1..Len(tr) :
         /\ tr[k][1] = (IF opLog[tr[k][2]].op = "setup" THEN "Setup" ELSE "Deployment")
         /\ opLog[tr[k][2]].op \in {"setup", "deploy"}
         /\ \A j \in 1..Len(tr) : j # k => tr[j][2] # tr[k][2]
    /\ result.value.logs = <<MainDeployId, setup_answer.id>>

C12_Witness ==
  /\ SetupReverted
  /\ setup_answer.out = "Execution" /\ setup_answer.has_traces
  /\ TraceIdx("Deployment") # {}
  /\ libraries_len >= 1

\* The main deployment of setup: the deploy that follows the libraries'.
IsMainDeploy(j) ==
  /\ entry = "setup" /\ opLog[j].op = "deploy"
  /\ \E k \in 1..Len(DeploySeq) : DeploySeq[k] = j /\ k > libraries_len

\* C13: in setup the main deploy is made by CALLER and directly preceded by
\* the credit of initial_balance to the CREATE address of CALLER at the nonce
\* get_nonce returned, read after every library deployment; that nonce is
\* CALLER's nonce when the deploy starts, so a main deployment that succeeds
\* gives the pre-funded address, which is the first element returned, also
\* when the sender is CALLER.
C13_PrefundedIsDeployed ==
  /\ \A j \in 1..Len(opLog) :
       IsMainDeploy(j) =>
         /\ opLog[j].who = CALLER
         /\ j > 2
         /\ opLog[j - 1].op = "set_balance_initial" /\ opLog[j - 1].out = "Ok"
         /\ opLog[j - 2].op = "get_nonce" /\ opLog[j - 2].out = "Ok"
         /\ opLog[j - 1].who = Create(CALLER, opLog[j - 2].arg)
         /\ opLog[j - 2].arg = opLog[j].arg
         /\ \A k \in 1..libraries_len : DeploySeq[k] < j - 2
         /\ opLog[j].out = "Ok" =>
              /\ address = opLog[j - 1].who
              /\ <<address, "initial_balance">> \in balance
  /\ \A i \in 1..Len(opLog) :
       (entry = "setup" /\ opLog[i].op = "set_balance_initial") =>
         /\ i > 1 /\ opLog[i - 1].op = "get_nonce"
         /\ opLog[i].who = Create(CALLER, opLog[i - 1].arg)
         /\ Len(DeploySeq) >= libraries_len
         /\ \A k \in 1..libraries_len : DeploySeq[k] < i
  /\ SetupReturned =>
       /\ \E j \in 1..Len(opLog) : IsMainDeploy(j) /\ opLog[j].out = "Ok"
       /\ result.address = address

C13_Witness ==
  /\ SetupReturned
  /\ sender = CALLER
  /\ libraries_len >= 1
  /\ <<result.address, "initial_balance">> \in balance

\* The least sufficient gas limit M of a deterministic engine: okSet is
\* M..3b for the baseline gas b.
LeastSufficient == 3 * res.gas_used + 1 - Cardinality(okSet)

TightCase ==
  /\ det /\ SearchReturned
  /\ res.gas_used < LeastSufficient /\ LeastSufficient <= 3 * res.gas_used

\* C14 as stated: for baseline b and least sufficient limit M, b < M <= 3b,
\* on an engine that succeeds exactly at limits >= M, the estimate g
\* satisfies 10 * g < 11 * M.
C14_Tight == TightCase => 10 * gas_used < 11 * LeastSufficient

\* C14, amended: in the same case 8 * g < 9 * M (g < 1.125 * M); an estimate
\* reached by convergence is sufficient (g >= M); and for b = 21000,
\* M = 23000 the search converges to 23296, which is below 1.1 * 23000.
C14_TightEighth ==
  TightCase =>
    /\ 8 * gas_used < 9 * LeastSufficient
    /\ search_exit = "converged" => gas_used >= LeastSufficient
    /\ (res.gas_used \in TransferGas /\ LeastSufficient \in TransferMinimum) =>
         /\ search_exit = "converged"
         /\ gas_used = 23296
         /\ 10 * gas_used < 11 * LeastSufficient

C14_Witness ==
  /\ TightCase
  /\ res.gas_used \in TransferGas /\ LeastSufficient \in TransferMinimum
  /\ search_exit = "converged"

\* C15: whatever the baseline result and the outcomes of the re-simulations,
\* the estimate the search returns (the baseline gas itself when the search
\* does not run) is not below the baseline's gas_used, and it is the gas_used
\* of the result of the committing call.
C15_EstimateNotBelowBaseline ==
  /\ pc = "commit" => gas_used >= res.gas_used
  /\ (pc = "commit" /\ search_exit = "skipped") => gas_used = res.gas_used
  /\ (entry = "simulate_call" /\ pc = "done" /\ result.kind = "Ok")
       => result.value.gas_used = gas_used

C15_Witness ==
  /\ pc = "commit" /\ search_exit = "converged"
  /\ res.gas_used \in TransferGas
  /\ gas_used > res.gas_used

\* The engine operations of call: the log without the setup_zk_tx that
\* simulate may issue first.
CallOps == SelectSeq(opLog, LAMBDA o : o.op # "setup_zk_tx")

\* C16: a call with commit = true without engine error gives the engine one
\* baseline call_raw under the pre-call gas limit, then the re-simulations of
\* the search, which exist only when the baseline's exit reason is successful
\* (otherwise none, and the gas returned is the baseline's), then one
\* call_raw_committing, the last operation, under the pre-call gas limit.
C16_CallOrder ==
  /\ (entry = "simulate_call" /\ pc \in {"search", "search_loop", "search_end", "commit"}) =>
       /\ CallOps[1].op = "call_raw" /\ CallOps[1].arg = pre.gas_limit
       /\ \A i \in 1..Len(CallOps) : CallOps[i].op = "call_raw"
       /\ res.exit_reason \notin ReturnOk =>
            /\ Resims = 0
            /\ pc \in {"search", "commit"}
            /\ gas_used = res.gas_used
       /\ pc = "commit" => gas_limit = pre.gas_limit
  /\ (entry = "simulate_call" /\ pc = "done" /\ result.kind = "Ok") =>
       LET n == Len(CallOps) IN
       /\ n >= 2
       /\ CallOps[1].op = "call_raw" /\ CallOps[1].arg = pre.gas_limit
       /\ \A i \in 2..(n - 1) : CallOps[i].op = "call_raw"
       /\ CallOps[n].op = "call_raw_committing" /\ CallOps[n].arg = pre.gas_limit
       /\ Last = CallOps[n]
       /\ search_exit = "skipped" => n = 2
       /\ \A i \in 1..n : CallOps[i].out = "Ok"

C16_Witness ==
  /\ entry = "simulate_call" /\ pc = "done" /\ result.kind = "Ok"
  /\ search_exit = "exhausted"
  /\ Resims >= 2
  /\ \E i \in 1..Len(CallOps) : CallOps[i].op = "call_raw" /\ CallOps[i].arg # pre.gas_limit
  /\ result.value.gas_used # CallOps[Len(CallOps)].arg

\* The same order when the baseline did not end successfully.
C16_SkippedWitness ==
  /\ entry = "simulate_call" /\ pc = "done" /\ result.kind = "Ok"
  /\ search_exit = "skipped"
  /\ Len(CallOps) = 2

\* C17: the result of a call with commit = true has the search's estimate as
\* gas_used, whatever gas the committing execution reports, address unset,
\* and returned data, success (= not reverted), logs, trace, labels,
\* transactions and breakpoints of the committing execution, the last
\* operation of the log, not of the baseline, the first operation of call.
C17_ResultOfReplay ==
  (entry = "simulate_call" /\ pc = "done" /\ result.kind = "Ok") =>
    LET v == result.value
        id == Len(opLog)
        baseline == Len(opLog) - Len(CallOps) + 1
    IN /\ opLog[id].op = "call_raw_committing"
       /\ opLog[baseline].op = "call_raw" /\ baseline < id
       /\ res.id = id
       /\ v.gas_used = gas_used
       /\ v.address = NoAddress
       /\ v.returned = id
       /\ v.success = ~res.reverted
       /\ v.logs = <<id>>
       /\ v.traces = (IF res.has_traces THEN << <<"Execution", id>> >> ELSE <<>>)
       /\ v.labeled_addresses = id
       /\ v.transactions = id
       /\ v.breakpoints = (IF has_cheatcodes THEN id ELSE 0)

C17_Witness ==
  /\ entry = "simulate_call" /\ pc = "done" /\ result.kind = "Ok"
  /\ has_cheatcodes /\ res.has_traces
  /\ res.gas_used # result.value.gas_used
  /\ res.reverted
  /\ Resims >= 1

\* The position of the setup call in the log (0 when there is none).
SetupIdx ==
  LET s == {i \in 1..Len(opLog) : opLog[i].op = "setup"}
  IN IF s = {} THEN 0 ELSE CHOOSE i \in s : TRUE

\* The set_nonce operations that follow the setup call: the corrections.
Corrections ==
  {i \in 1..Len(opLog) : opLog[i].op = "set_nonce" /\ SetupIdx # 0 /\ i > SetupIdx}

\* The sender's nonce when the setup call has ended: sender_nonce, the
\* sender's deployments, and what the setup call added.
NonceAfterSetupCall ==
  sender_nonce + libraries_len + (IF sender = CALLER THEN 1 ELSE 0)
    + setup_answer.nonce_bump

\* C18: a setup invocation with setup = true that returns a result corrects
\* the sender's nonce at most once, and exactly when the cheatcodes are present
\* and their corrected_nonce flag is unset after the setup call; otherwise the
\* nonce is as the setup call left it; the flag is false afterwards; without
\* cheatcodes neither the nonce nor a flag is touched.
C18_CorrectionOnce ==
  (SetupReturned /\ setup_flag) =>
    /\ Cardinality({i \in 1..Len(opLog) : opLog[i].op = "setup"}) = 1
    /\ Cardinality(Corrections) <= 1
    /\ Corrections # {} <=> (has_cheatcodes /\ ~setup_answer.corrected)
    /\ \A i \in Corrections :
         /\ opLog[i].who = sender /\ opLog[i].out = "Ok"
         /\ nonce[sender] = opLog[i].arg
    /\ Corrections = {} => nonce[sender] = NonceAfterSetupCall
    /\ ~corrected_nonce
    /\ ~has_cheatcodes => Corrections = {}

C18_Witness ==
  /\ SetupReturned /\ setup_flag
  /\ has_cheatcodes /\ setup_answer.corrected
  /\ setup_answer.nonce_bump = 1
  /\ nonce[sender] # sender_nonce + libraries_len

\* C19: in setup a deployment that fails, whatever the shape of the error, is
\* the last engine operation of the invocation: no later library, main deploy,
\* setup call or nonce correction follows; a failed library deployment aborts
\* the invocation (panic), a failed main deployment is returned as an error;
\* and setup returns a pair only after every library and the main contract
\* have been deployed.
C19_DeployFailureAborts ==
  entry = "setup" =>
    /\ \A i \in 1..Len(opLog) :
         (opLog[i].op = "deploy" /\ opLog[i].out # "Ok") =>
           /\ i = Len(opLog)
           /\ pc = "done"
           /\ result.kind = (IF IsMainDeploy(i) THEN "Err" ELSE "Panic")
    /\ SetupReturned =>
         /\ Len(DeploySeq) = libraries_len + 1
         /\ \A k \in 1..Len(DeploySeq) : opLog[DeploySeq[k]].out = "Ok"
    /\ \A i \in 1..Len(opLog) :
         opLog[i].op \in {"setup", "set_test_contract"} =>
           /\ Cardinality({k \in 1..Len(DeploySeq) : DeploySeq[k] < i}) = libraries_len + 1
           /\ \A k \in 1..Len(DeploySeq) : opLog[DeploySeq[k]].out = "Ok"

C19_Witness ==
  /\ entry = "setup" /\ pc = "done"
  /\ libraries_len >= 1 /\ setup_flag
  /\ Last.op = "deploy" /\ Last.out = "Execution"
  /\ IsMainDeploy(Len(opLog))
  /\ result.kind = "Err"

\* A library deployment failing after an earlier one succeeded.
C19_LibraryWitness ==
  /\ entry = "setup" /\ pc = "done"
  /\ Len(DeploySeq) = 2 /\ libraries_len = 2
  /\ Last.op = "deploy" /\ Last.out = "Execution"
  /\ result.kind = "Panic"

\* The loop of the search is about to run its body.
AtLoopHead == pc = "search_loop" /\ highest_gas_limit - lowest_gas_limit > 1

\* C20: whenever the loop condition is evaluated the upper bound is not below
\* the lower one; at the head of every iteration
\* baseline <= low < high <= 3 * baseline and lastHigh = high > 0, and the
\* midpoint lies strictly between low and high, so no subtraction underflows
\* and the division is not by zero; and for a baseline b with 10 * b within
\* the word, b * 3, high + low and (lastHigh - mid) * 10 are within the word.
C20_ArithmeticSafe ==
  LET b == res.gas_used
      low == lowest_gas_limit
      high == highest_gas_limit
      last == last_highest_gas_limit
      mid == MidGasLimit(high, low)
  IN /\ pc = "search_loop" =>
          /\ high >= low
          /\ ACCURACY * b <= MaxWord => InitialHighest(b) <= MaxWord
     /\ AtLoopHead =>
          /\ b <= low /\ low < high /\ high <= 3 * b
          /\ last = high /\ high > 0
          /\ low < mid /\ mid < high
          /\ last - mid >= 0
          /\ ACCURACY * b <= MaxWord =>
               /\ high + low <= MaxWord
               /\ (last - mid) * ACCURACY <= MaxWord

C20_Witness ==
  /\ AtLoopHead
  /\ res.gas_used = MaxWord \div ACCURACY
  /\ (last_highest_gas_limit - MidGasLimit(highest_gas_limit, lowest_gas_limit)) * ACCURACY
       = ACCURACY * res.gas_used
  /\ ACCURACY * (res.gas_used + 1) > MaxWord

====
